---- MODULE Spec2Model ----
(***************************************************************************)
(* Model of scene/dataset_readers.py: the three COLMAP camera readers, the  *)
(* three scene assemblers behind sceneLoadTypeCallbacks, and getNerfppNorm. *)
(*                                                                          *)
(* Python strings are sequences of one-character strings, compared as       *)
(* Python compares them (code point by code point, a proper prefix first).  *)
(* Python's None is the string "None".  A call either returns a value or    *)
(* raises; `result` records which.                                          *)
(***************************************************************************)
EXTENDS Integers, Sequences, FiniteSets, TLC

VARIABLES
    call,            \* the function invoked
    cam_extrinsics,  \* parsed images.bin: sequence of entries, in dict order
    cam_intrinsics,  \* parsed cameras.bin: camera id -> intrinsics
    missing,         \* image paths that do not exist on disk
    startime,        \* first frame index
    duration,        \* number of frames
    testonly,        \* the assemblers' testonly flag
    ply_file,        \* state of the point cloud file: "ok", "missing", "corrupt"
    cam_info,        \* camera list handed to getNerfppNorm / made by the hyper loader
    pc,              \* "start" before the call, "done" after it
    result,          \* what the call returned or raised
    fetched,         \* number of fetchPly calls made
    norm_arg         \* the list getNerfppNorm was last called with, or "None"

vars == <<call, cam_extrinsics, cam_intrinsics, missing, startime, duration,
          testonly, ply_file, cam_info, pc, result, fetched, norm_arg>>

\* ---------------------------------------------------------------- bounds
MaxCams == 2
MaxDuration == 3
MaxStart == 1
MaxPos == 1

None == "None"

\* ---------------------------------------------------------------- strings
\* The characters used, in code point order.
Chars == <<".", "/", "0", "1", "2", "3", "4", "5", "6", "7", "8", "9",
           "a", "c", "d", "e", "f", "g", "i", "m", "n", "p", "r", "s", "x">>

Ord(c) == CHOOSE i \in 1..Len(Chars) : Chars[i] = c

Min(a, b) == IF a < b THEN a ELSE b

RECURSIVE StrLeq(_, _)
\* a <= b for Python strings
StrLeq(a, b) ==
    IF a = <<>> THEN TRUE
    ELSE IF b = <<>> THEN FALSE
    ELSE IF Head(a) = Head(b) THEN StrLeq(Tail(a), Tail(b))
    ELSE Ord(Head(a)) < Ord(Head(b))

\* s.startswith(sub) in place of sub in s
StartsWith(sub, s) == SubSeq(s, 1, Min(Len(sub), Len(s))) = sub

\* sub in s
Contains(sub, s) ==
    \E i \in 1..(Len(s) - Len(sub) + 1) : SubSeq(s, i, i + Len(sub) - 1) = sub

\* s[:n] for n >= 0
Take(s, n) == SubSeq(s, 1, Min(n, Len(s)))

\* s[:-n] for n > 0
DropLast(s, n) == SubSeq(s, 1, Len(s) - n)

\* s.split('/')[-1]
LastComponent(s) ==
    LET slashes == {i \in 1..Len(s) : s[i] = "/"}
        last == IF slashes = {} THEN 0
                ELSE CHOOSE i \in slashes : \A k \in slashes : k <= i
    IN SubSeq(s, last + 1, Len(s))

\* os.path.join(a, b)
Join(a, b) ==
    IF b # <<>> /\ Head(b) = "/" THEN b
    ELSE IF a = <<>> \/ a[Len(a)] = "/" THEN a \o b
    ELSE a \o <<"/">> \o b

Digit(d) == Chars[d + 3]

RECURSIVE Digits(_)
Digits(n) == IF n < 10 THEN <<Digit(n)>> ELSE Digits(n \div 10) \o <<Digit(n % 10)>>

RECURSIVE ZeroPad(_, _)
ZeroPad(s, w) == IF Len(s) >= w THEN s ELSE ZeroPad(<<"0">> \o s, w)

\* f"{j:04d}" and "%04d" % j, for j >= 0
Pad4(j) == ZeroPad(Digits(j), 4)

cam00_png == <<"c", "a", "m", "0", "0", ".", "p", "n", "g">>
cam10_png == <<"c", "a", "m", "1", "0", ".", "p", "n", "g">>
xcam10_png == <<"x", "c", "a", "m", "1", "0", ".", "p", "n", "g">>
xcam11_png == <<"x", "c", "a", "m", "1", "1", ".", "p", "n", "g">>
cam10 == <<"c", "a", "m", "1", "0">>
frames == <<"f", "r", "a", "m", "e", "s">>
images_slash == <<"i", "m", "a", "g", "e", "s", "/">>
dot_png == <<".", "p", "n", "g">>
root == <<"d">>

\* ---------------------------------------------------------------- readers
\* A call's outcome.
Return(v) == [kind |-> "return", value |-> v]

\* An assert that failed in a reader: at extrinsics entry `key`, at frame `j`
\* (-1: before the frame loop), with `n` CameraInfo appended so far.
ReaderAbort(why, key, j, n) ==
    [kind |-> "raise", exc |-> "AssertionError", why |-> why,
     key |-> key, frame |-> j, created |-> n]

Raise(exc) == [kind |-> "raise", exc |-> exc]

\* os.path.exists(image_path)
Exists(image_path) == image_path \notin missing

\* j / duration: the frame index not taken relative to startime
TimestampFromZero(j, st, dur) == [num |-> j, den |-> dur]

\* (j - startime) / duration, kept as an exact fraction
Timestamp(j, st, dur) == [num |-> j - st, den |-> dur]

\* The CameraInfo tuple (pose=1 is written "1").  FovX/FovY, width/height, near/far and cxr/cyr are
\* left out; `key` is the extrinsics entry the record was made from (the
\* identity of the Python object's origin, not a field of the tuple).
CameraInfo(uid, R, T, image, image_path, image_name, timestamp, pose, key) ==
    [uid |-> uid, R |-> R, T |-> T, image |-> image, image_path |-> image_path,
     image_name |-> image_name, timestamp |-> timestamp, pose |-> pose,
     hpdirecitons |-> pose, key |-> key]

\* a distorted model let through
SupportedModelLax(model) == model \in {"SIMPLE_PINHOLE", "PINHOLE", "OPENCV"}

SupportedModel(model) == model \in {"SIMPLE_PINHOLE", "PINHOLE"}

\* os.path.join(images_folder, "frames", f"{j:04d}", extr.name)
DynerfImagePath(images_folder, name, j) ==
    Join(Join(Join(images_folder, frames), Pad4(j)), name)

\* os.path.join(images_folder, f"images/{extr.name[:-4]}", "%04d.png" % j)
TechnicolorImagePath(images_folder, name, j) ==
    Join(Join(images_folder, images_slash \o DropLast(name, 4)), Pad4(j) \o dot_png)

\* os.path.join(f"{extr.name[:-4]}", image_path.split('/')[-1])
TechnicolorImageName(name, image_path) ==
    Join(DropLast(name, 4), LastComponent(image_path))

\* the image opened and resized at every frame
DynerfFrameEager(extr, key, intr, images_folder, j, st, dur) ==
    LET image_path == DynerfImagePath(images_folder, extr.name, j)
        image_name == LastComponent(image_path)
    IN IF j = st
       THEN CameraInfo(intr.id, extr.R, extr.T, "Image", image_path, image_name,
                       Timestamp(j, st, dur), "1", key)
       ELSE CameraInfo(intr.id, extr.R, extr.T, "Image", image_path, image_name,
                       Timestamp(j, st, dur), None, key)

\* One pass of the frame loop body of readColmapCamerasDynerf.
DynerfFrame(extr, key, intr, images_folder, j, st, dur) ==
    LET image_path == DynerfImagePath(images_folder, extr.name, j)
        image_name == LastComponent(image_path)
    IN IF j = st
       THEN CameraInfo(intr.id, extr.R, extr.T, "Image", image_path, image_name,
                       Timestamp(j, st, dur), "1", key)
       ELSE CameraInfo(intr.id, extr.R, extr.T, None, image_path, image_name,
                       Timestamp(j, st, dur), None, key)

\* One pass of the frame loop body of readColmapCamerasTechnicolorTestonly.
TestonlyFrame(extr, key, intr, images_folder, j, st, dur) ==
    LET image_path == TechnicolorImagePath(images_folder, extr.name, j)
        image_name == TechnicolorImageName(extr.name, image_path)
        image == IF image_name = cam10 THEN "Image" ELSE None
    IN IF j = st
       THEN CameraInfo(intr.id, extr.R, extr.T, image, image_path, image_name,
                       Timestamp(j, st, dur), "1", key)
       ELSE CameraInfo(intr.id, extr.R, extr.T, image, image_path, image_name,
                       Timestamp(j, st, dur), None, key)

\* One pass of the frame loop body of readColmapCamerasTechnicolor.
TechnicolorFrame(extr, key, intr, images_folder, j, st, dur) ==
    LET image_path == TechnicolorImagePath(images_folder, extr.name, j)
        image_name == TechnicolorImageName(extr.name, image_path)
        image == "Image"
    IN IF j = st
       THEN CameraInfo(intr.id, extr.R, extr.T, image, image_path, image_name,
                       Timestamp(j, st, dur), "1", key)
       ELSE CameraInfo(intr.id, extr.R, extr.T, image, image_path, image_name,
                       Timestamp(j, st, dur), None, key)

Frame(reader, extr, key, intr, images_folder, j, st, dur) ==
    CASE reader = "readColmapCamerasDynerf" ->
           DynerfFrame(extr, key, intr, images_folder, j, st, dur)
      [] reader = "readColmapCamerasTechnicolorTestonly" ->
           TestonlyFrame(extr, key, intr, images_folder, j, st, dur)
      [] reader = "readColmapCamerasTechnicolor" ->
           TechnicolorFrame(extr, key, intr, images_folder, j, st, dur)

RECURSIVE FrameLoopInclusive(_, _, _, _, _, _, _, _, _)
\* the frame range taken with its end included
FrameLoopInclusive(reader, extr, key, intr, images_folder, j, st, dur, cam_infos) ==
    IF j > st + dur THEN Return(cam_infos)
    ELSE LET c == Frame(reader, extr, key, intr, images_folder, j, st, dur)
         IN IF ~Exists(c.image_path)
            THEN ReaderAbort("image does not exist", key, j, Len(cam_infos))
            ELSE FrameLoopInclusive(reader, extr, key, intr, images_folder, j + 1,
                                    st, dur, Append(cam_infos, c))

RECURSIVE FrameLoop(_, _, _, _, _, _, _, _, _)
\* for j in range(startime, startime + int(duration)): assert the image
\* exists, build the CameraInfo, append it.
FrameLoop(reader, extr, key, intr, images_folder, j, st, dur, cam_infos) ==
    IF j >= st + dur THEN Return(cam_infos)
    ELSE LET c == Frame(reader, extr, key, intr, images_folder, j, st, dur)
         IN IF ~Exists(c.image_path)
            THEN ReaderAbort("image does not exist", key, j, Len(cam_infos))
            ELSE FrameLoop(reader, extr, key, intr, images_folder, j + 1, st, dur,
                           Append(cam_infos, c))

RECURSIVE CameraLoop(_, _, _, _, _, _, _, _)
\* for idx, key in enumerate(cam_extrinsics): look the intrinsics up, assert
\* the camera model, run the frame loop.
CameraLoop(reader, extrinsics, intrinsics, images_folder, st, dur, key, cam_infos) ==
    IF key > Len(extrinsics) THEN Return(cam_infos)
    ELSE LET extr == extrinsics[key]
             intr == intrinsics[extr.camera_id]
         IN IF ~SupportedModel(intr.model)
            THEN ReaderAbort("camera model not handled", key, -1, Len(cam_infos))
            ELSE LET r == FrameLoop(reader, extr, key, intr, images_folder,
                                    st, st, dur, cam_infos)
                 IN IF r.kind = "raise" THEN r
                    ELSE CameraLoop(reader, extrinsics, intrinsics, images_folder,
                                    st, dur, key + 1, r.value)

readColmapCamerasDynerf(extrinsics, intrinsics, images_folder, st, dur) ==
    CameraLoop("readColmapCamerasDynerf", extrinsics, intrinsics, images_folder,
               st, dur, 1, <<>>)

readColmapCamerasTechnicolorTestonly(extrinsics, intrinsics, images_folder, st, dur) ==
    CameraLoop("readColmapCamerasTechnicolorTestonly", extrinsics, intrinsics,
               images_folder, st, dur, 1, <<>>)

readColmapCamerasTechnicolor(extrinsics, intrinsics, images_folder, st, dur) ==
    CameraLoop("readColmapCamerasTechnicolor", extrinsics, intrinsics, images_folder,
               st, dur, 1, <<>>)

\* ---------------------------------------------------------------- getNerfppNorm
Vec3 == 1..3

Dot(u, v) == u[1] * v[1] + u[2] * v[2] + u[3] * v[3]

MatVec(M, v) == [i \in Vec3 |-> Dot(M[i], v)]

Transpose(M) == [i \in Vec3 |-> [k \in Vec3 |-> M[k][i]]]

Neg(v) == [i \in Vec3 |-> 0 - v[i]]

Scale(n, v) == [i \in Vec3 |-> n * v[i]]

Sub(u, v) == [i \in Vec3 |-> u[i] - v[i]]

\* utils.graphics_utils.getWorld2View2 with its default translate and scale:
\* the 4x4 matrix with rotation block R.transpose() and translation column t.
getWorld2View2(R, t) == [A |-> Transpose(R), t |-> t]

\* np.linalg.inv(W2C)[:3, 3:4] for the rigid transform W2C = [A t; 0 1] with A
\* orthogonal: the inverse is [A^T  -A^T t; 0 1].
CamCenter(cam) ==
    LET W2C == getWorld2View2(cam.R, cam.T)
    IN Neg(MatVec(Transpose(W2C.A), W2C.t))

RECURSIVE SumVec(_)
SumVec(vs) == IF vs = <<>> THEN [i \in Vec3 |-> 0]
              ELSE [i \in Vec3 |-> Head(vs)[i] + SumVec(Tail(vs))[i]]

SetMax(S) == CHOOSE m \in S : \A x \in S : x <= m

\* distances taken from the origin, not from the mean
CenterAndDiagFromOrigin(cam_centers) ==
    LET n == Len(cam_centers)
        total == SumVec(cam_centers)
        dist_sq == {Dot(Scale(n, cam_centers[i]), Scale(n, cam_centers[i])) : i \in 1..n}
    IN [center |-> [num |-> total, den |-> n],
        diagonal_sq |-> [num |-> SetMax(dist_sq), den |-> n * n]]

\* get_center_and_diag: the mean of the centers as the fraction sum/n, and the
\* largest distance from it as its square, the fraction max|n*c - sum|^2 / n^2.
get_center_and_diag(cam_centers) ==
    LET n == Len(cam_centers)
        total == SumVec(cam_centers)
        dist_sq == {Dot(Sub(Scale(n, cam_centers[i]), total),
                        Sub(Scale(n, cam_centers[i]), total)) : i \in 1..n}
    IN [center |-> [num |-> total, den |-> n],
        diagonal_sq |-> [num |-> SetMax(dist_sq), den |-> n * n]]

\* getNerfppNorm(cam_info).  radius = diagonal * 1.1 is kept as its square,
\* diagonal^2 * 121/100; np.hstack of an empty list raises ValueError.
getNerfppNorm(cams) ==
    IF cams = <<>> THEN Raise("ValueError")
    ELSE LET cd == get_center_and_diag([i \in 1..Len(cams) |-> CamCenter(cams[i])])
         IN Return([translate |-> [num |-> Neg(cd.center.num), den |-> cd.center.den],
                    radius_sq |-> [num |-> cd.diagonal_sq.num * 121,
                                   den |-> cd.diagonal_sq.den * 100]])

\* ---------------------------------------------------------------- assemblers
\* The list with x put after every element whose image_name is <= x's.
InsertByName(sorted, x) ==
    LET k == Cardinality({i \in 1..Len(sorted) :
                            StrLeq(sorted[i].image_name, x.image_name)})
    IN SubSeq(sorted, 1, k) \o <<x>> \o SubSeq(sorted, k + 1, Len(sorted))

\* the list left in extrinsics order
Unsorted(cams) == cams

RECURSIVE SortedByName(_)
\* sorted(cam_infos_unsorted.copy(), key = lambda x : x.image_name): stable
SortedByName(cams) ==
    IF cams = <<>> THEN <<>>
    ELSE InsertByName(SortedByName(SubSeq(cams, 1, Len(cams) - 1)), cams[Len(cams)])

\* lst[a:b-1]: the slice one short
PySliceShort(lst, a, b) == SubSeq(lst, Min(a, Len(lst)) + 1, Min(b, Len(lst)) - 1)

\* lst[a:b] for 0 <= a <= b
PySlice(lst, a, b) == SubSeq(lst, Min(a, Len(lst)) + 1, Min(b, Len(lst)))

RECURSIVE Chain(_)
\* list(chain(*lists))
Chain(lists) == IF lists = <<>> THEN <<>> ELSE Head(lists) \o Chain(Tail(lists))

\* [x for i, x in enumerate(lst) if keep(i)], by 1-based positions
SelectIndices(lst, keep) ==
    LET F[i \in 0..Len(lst)] ==
            IF i = 0 THEN <<>>
            ELSE IF i \in keep THEN Append(F[i - 1], lst[i]) ELSE F[i - 1]
    IN F[Len(lst)]

\* fetchPly(path): the point cloud, or the error PlyData.read raises
fetchPly(ply) ==
    CASE ply = "ok" -> Return("BasicPointCloud")
      [] ply = "missing" -> Raise("FileNotFoundError")
      [] ply = "corrupt" -> Raise("PlyParseError")

SceneInfo(pcd, train, test, video, norm, ply_path) ==
    [point_cloud |-> pcd, train_cameras |-> train, test_cameras |-> test,
     video_cameras |-> video, nerf_normalization |-> norm, ply_path |-> ply_path]

\* An assembler's outcome: what it returned or raised, how often it called
\* fetchPly, and the list it passed to getNerfppNorm (None: not called).
Outcome(res, nfetch, narg) == [res |-> res, fetched |-> nfetch, norm_arg |-> narg]

\* test_cams = [0]
test_cams == <<0>>

\* the testonly test inverted
GuardedFetchInverted(tonly, ply) ==
    IF tonly
    THEN LET f == fetchPly(ply)
         IN [pcd |-> IF f.kind = "return" THEN f.value ELSE None, fetched |-> 1]
    ELSE [pcd |-> None, fetched |-> 0]

\* The point cloud step shared by the two COLMAP assemblers: skipped when
\* testonly, and a failing fetchPly gives None.
GuardedFetch(tonly, ply) ==
    IF ~tonly
    THEN LET f == fetchPly(ply)
         IN [pcd |-> IF f.kind = "return" THEN f.value ELSE None, fetched |-> 1]
    ELSE [pcd |-> None, fetched |-> 0]

readColmapSceneInfoDynerf(extrinsics, intrinsics, path, dur, tonly, ply) ==
    LET unsorted == readColmapCamerasDynerf(extrinsics, intrinsics, path, 0, dur)
    IN IF unsorted.kind = "raise" THEN Outcome(unsorted, 0, None)
       ELSE
       LET cam_infos == SortedByName(unsorted.value)
           slices == [i \in 1..Len(test_cams) |->
                        [start |-> test_cams[i] * dur, stop |-> (test_cams[i] + 1) * dur]]
           sliced_infos == [i \in 1..Len(slices) |->
                              PySlice(cam_infos, slices[i].start, slices[i].stop)]
           test_cam_infos == Chain(sliced_infos)
           excluded_indices == UNION {slices[i].start .. (slices[i].stop - 1) :
                                        i \in 1..Len(slices)}
           train_cam_infos == SelectIndices(cam_infos,
                                  {i \in 1..Len(cam_infos) : (i - 1) \notin excluded_indices})
           nerf_normalization == getNerfppNorm(train_cam_infos)
           ply_path == <<path, "sparse/0/points3D.ply">>
       IN IF nerf_normalization.kind = "raise"
          THEN Outcome(nerf_normalization, 0, train_cam_infos)
          ELSE LET g == GuardedFetch(tonly, ply)
               IN Outcome(Return(SceneInfo(g.pcd, train_cam_infos, test_cam_infos,
                                           test_cam_infos, nerf_normalization.value,
                                           ply_path)),
                          g.fetched, train_cam_infos)

RECURSIVE UniquePrefixes(_)
\* the uniquecheck / sanitycheck loops: the distinct image_name[:5], in order
UniquePrefixes(cams) ==
    IF cams = <<>> THEN <<>>
    ELSE LET rest == UniquePrefixes(SubSeq(cams, 1, Len(cams) - 1))
             p == Take(cams[Len(cams)].image_name, 5)
         IN IF \E i \in 1..Len(rest) : rest[i] = p THEN rest ELSE Append(rest, p)

readColmapSceneInfoTechnicolor(extrinsics, intrinsics, path, dur, tonly, ply) ==
    LET unsorted == IF tonly
                    THEN readColmapCamerasTechnicolorTestonly(extrinsics, intrinsics,
                                                              path, 0, dur)
                    ELSE readColmapCamerasTechnicolor(extrinsics, intrinsics,
                                                      path, 0, dur)
    IN IF unsorted.kind = "raise" THEN Outcome(unsorted, 0, None)
       ELSE
       LET cam_infos == SortedByName(unsorted.value)
           train_cam_infos == SelectSeq(cam_infos,
                                  LAMBDA c : ~Contains(cam10, c.image_name))
           test_cam_infos == SelectSeq(cam_infos,
                                  LAMBDA c : Contains(cam10, c.image_name))
           uniquecheck == UniquePrefixes(test_cam_infos)
           sanitycheck == UniquePrefixes(train_cam_infos)
           nerf_normalization == getNerfppNorm(train_cam_infos)
           ply_path == <<path, "points3D_downsample.ply">>
       IN IF Len(uniquecheck) # 1
          THEN Outcome(Raise("AssertionError"), 0, None)
          ELSE IF \E t \in 1..Len(uniquecheck) : \E k \in 1..Len(sanitycheck) :
                     uniquecheck[t] = sanitycheck[k]
          THEN Outcome(Raise("AssertionError"), 0, None)
          ELSE IF nerf_normalization.kind = "raise"
          THEN Outcome(nerf_normalization, 0, train_cam_infos)
          ELSE LET g == GuardedFetch(tonly, ply)
               IN Outcome(Return(SceneInfo(g.pcd, train_cam_infos, test_cam_infos,
                                           <<>>, nerf_normalization.value, ply_path)),
                          g.fetched, train_cam_infos)

\* scene.hyper_loader.Load_hyper_data(datadir, 0.5, use_bg_points, split=...):
\* the loader object of one split of the capture.
Load_hyper_data(capture, split) ==
    [split |-> split, cams |-> SelectSeq(capture, LAMBDA c : c.split = split)]

\* scene.hyper_loader.format_hyper_data(data, "train", ...): the split's
\* cameras as a list of records with R and T.
format_hyper_data(data) == data.cams

readHyperDataInfos(datadir, capture, ply) ==
    LET train_cam_infos == Load_hyper_data(capture, "train")
        test_cam_infos == Load_hyper_data(capture, "test")
        train_cam == format_hyper_data(train_cam_infos)
        video_cam_infos == [test_cam_infos EXCEPT !.split = "video"]
        nerf_normalization == getNerfppNorm(train_cam)
        ply_path == <<datadir, "points3D_downsample.ply">>
        pcd == fetchPly(ply)
    IN IF nerf_normalization.kind = "raise"
       THEN Outcome(nerf_normalization, 0, train_cam)
       ELSE IF pcd.kind = "raise" THEN Outcome(pcd, 1, train_cam)
       ELSE Outcome(Return(SceneInfo(pcd.value, train_cam_infos, test_cam_infos,
                                     video_cam_infos, nerf_normalization.value,
                                     ply_path)),
                    1, train_cam)

\* ---------------------------------------------------------------- inputs
Seqs(S, n) == UNION {[1..k -> S] : k \in 0..n}

Names == {cam00_png, cam10_png, xcam10_png, xcam11_png}

ReaderNames == {cam00_png, cam10_png}

CameraIds == {1, 2}

Models == {"SIMPLE_PINHOLE", "PINHOLE", "OPENCV"}

Identity == <<<<1, 0, 0>>, <<0, 1, 0>>, <<0, 0, 1>>>>

RotZ90 == <<<<0, -1, 0>>, <<1, 0, 0>>, <<0, 0, 1>>>>

Rotations == {Identity, RotZ90}

\* Image k of a COLMAP reconstruction: its pose is fixed by its place.
WithPoses(entries) ==
    [k \in 1..Len(entries) |->
        [name |-> entries[k].name, camera_id |-> entries[k].camera_id,
         R |-> IF k % 2 = 1 THEN Identity ELSE RotZ90, T |-> <<k, 0, 1>>]]

Extrinsics(names) ==
    {WithPoses(s) : s \in Seqs([name : names, camera_id : CameraIds], MaxCams)}

Intrinsics(tables) ==
    {[c \in CameraIds |-> [id |-> c, model |-> m[c]]] : m \in tables}

\* The model tables of the assemblers' inputs: all supported, or one camera
\* with an unsupported model.
SceneModelTables ==
    {m \in [CameraIds -> Models] :
        m[1] \in {"SIMPLE_PINHOLE", "OPENCV"} /\ m[2] \in {"PINHOLE", "OPENCV"}
        /\ ~(m[1] = "OPENCV" /\ m[2] = "OPENCV")}

\* Nothing missing, or one image file of the layout missing.
MissingChoices(layout, extrinsics, st, dur) ==
    {{}} \cup
    {{IF layout = "Dynerf" THEN DynerfImagePath(root, extrinsics[k].name, j)
                           ELSE TechnicolorImagePath(root, extrinsics[k].name, j)} :
        k \in 1..Len(extrinsics), j \in st..(st + dur - 1)}

HyperCams ==
    [R : Rotations, T : {<<x, y, 0>> : x \in 0..MaxPos, y \in 0..MaxPos},
     split : {"train", "test"}]

PlyStates == {"ok", "missing", "corrupt"}

\* ---------------------------------------------------------------- the assemblers
InitColmap ==
    /\ call \in {"Dynerf", "Technicolor"}
    /\ cam_extrinsics \in Extrinsics(Names)
    /\ cam_intrinsics \in Intrinsics(SceneModelTables)
    /\ startime = 0
    /\ duration \in 1..MaxDuration
    /\ missing \in MissingChoices(call, cam_extrinsics, startime, duration)
    /\ testonly \in BOOLEAN
    /\ ply_file \in PlyStates
    /\ cam_info = <<>>

InitHyper ==
    /\ call = "Nerfies"
    /\ cam_extrinsics = <<>>
    /\ cam_intrinsics = <<>>
    /\ startime = 0
    /\ duration = 1
    /\ missing = {}
    /\ testonly = FALSE
    /\ ply_file \in PlyStates
    /\ cam_info \in Seqs(HyperCams, MaxCams)

Start ==
    /\ pc = "start"
    /\ result = None
    /\ fetched = 0
    /\ norm_arg = None

Init == (InitColmap \/ InitHyper) /\ Start

Inputs == <<call, cam_extrinsics, cam_intrinsics, missing, startime, duration,
            testonly, ply_file, cam_info>>

Finish(o) ==
    /\ pc' = "done"
    /\ result' = o.res
    /\ fetched' = o.fetched
    /\ norm_arg' = o.norm_arg
    /\ UNCHANGED Inputs

\* sceneLoadTypeCallbacks["Dynerf"](path, images, eval, duration, testonly)
SceneDynerf ==
    /\ pc = "start"
    /\ call = "Dynerf"
    /\ Finish(readColmapSceneInfoDynerf(cam_extrinsics, cam_intrinsics, root,
                                        duration, testonly, ply_file))

\* sceneLoadTypeCallbacks["Technicolor"](path, images, eval, duration, testonly)
SceneTechnicolor ==
    /\ pc = "start"
    /\ call = "Technicolor"
    /\ Finish(readColmapSceneInfoTechnicolor(cam_extrinsics, cam_intrinsics, root,
                                             duration, testonly, ply_file))

\* sceneLoadTypeCallbacks["Nerfies"](datadir, use_bg_points, eval)
SceneNerfies ==
    /\ pc = "start"
    /\ call = "Nerfies"
    /\ Finish(readHyperDataInfos(root, cam_info, ply_file))

Next == SceneDynerf \/ SceneTechnicolor \/ SceneNerfies

Spec == Init /\ [][Next]_vars

\* ---------------------------------------------------------------- the readers alone
Readers == {"readColmapCamerasDynerf", "readColmapCamerasTechnicolorTestonly",
            "readColmapCamerasTechnicolor"}

InitReaders ==
    /\ call \in Readers
    /\ cam_extrinsics \in Extrinsics(ReaderNames)
    /\ cam_intrinsics \in Intrinsics([CameraIds -> Models])
    /\ startime \in 0..MaxStart
    /\ duration \in 1..MaxDuration
    /\ missing \in MissingChoices(IF call = "readColmapCamerasDynerf"
                                  THEN "Dynerf" ELSE "Technicolor",
                                  cam_extrinsics, startime, duration)
    /\ testonly = FALSE
    /\ ply_file = "ok"
    /\ cam_info = <<>>
    /\ Start

CallDynerf ==
    /\ pc = "start"
    /\ call = "readColmapCamerasDynerf"
    /\ Finish(Outcome(readColmapCamerasDynerf(cam_extrinsics, cam_intrinsics, root,
                                              startime, duration), 0, None))

CallTechnicolorTestonly ==
    /\ pc = "start"
    /\ call = "readColmapCamerasTechnicolorTestonly"
    /\ Finish(Outcome(readColmapCamerasTechnicolorTestonly(
                          cam_extrinsics, cam_intrinsics, root, startime, duration),
                      0, None))

CallTechnicolor ==
    /\ pc = "start"
    /\ call = "readColmapCamerasTechnicolor"
    /\ Finish(Outcome(readColmapCamerasTechnicolor(cam_extrinsics, cam_intrinsics,
                                                   root, startime, duration), 0, None))

NextReaders == CallDynerf \/ CallTechnicolorTestonly \/ CallTechnicolor

SpecReaders == InitReaders /\ [][NextReaders]_vars

\* ---------------------------------------------------------------- properties
Done == pc = "done"

Returned == Done /\ result.kind = "return"

Raised == Done /\ result.kind = "raise"

IsReaderCall == call \in Readers

\* The path the called reader builds for frame j of extrinsics entry k.
PathOf(k, j) ==
    IF call \in {"Dynerf", "readColmapCamerasDynerf"}
    THEN DynerfImagePath(root, cam_extrinsics[k].name, j)
    ELSE TechnicolorImagePath(root, cam_extrinsics[k].name, j)

FrameRange == startime..(startime + duration - 1)

\* The frame index a record was made for, read off its image path.
FrameOf(c) == CHOOSE j \in FrameRange : c.image_path = PathOf(c.key, j)

\* Where a record comes from: its extrinsics entry and its image file.
Origin(c) == <<c.key, c.image_path>>

Origins(cams) == {Origin(cams[i]) : i \in 1..Len(cams)}

Elems(cams) == {cams[i] : i \in 1..Len(cams)}

\* The held-out identifier occurs in the name, character by character.
HasHeldOutId(name) ==
    \E i \in 1..Len(name) :
        /\ i + 4 <= Len(name)
        /\ name[i] = "c" /\ name[i + 1] = "a" /\ name[i + 2] = "m"
        /\ name[i + 3] = "1" /\ name[i + 4] = "0"

SortedNames(cams) ==
    \A i \in 1..Len(cams) : \A k \in i..Len(cams) :
        StrLeq(cams[i].image_name, cams[k].image_name)

\* C1: the Dynerf assembler's train and test lists are disjoint and together
\* hold every (camera, frame) record of readColmapCamerasDynerf exactly once.
C1_DynerfSplitPartitions ==
    (Returned /\ call = "Dynerf") =>
        LET tr == result.value.train_cameras
            te == result.value.test_cameras
            produced == readColmapCamerasDynerf(cam_extrinsics, cam_intrinsics,
                                                root, 0, duration).value
        IN /\ Origins(tr) \cap Origins(te) = {}
           /\ Cardinality(Origins(tr)) = Len(tr)
           /\ Cardinality(Origins(te)) = Len(te)
           /\ Elems(tr) \cup Elems(te) = Elems(produced)
           /\ Len(tr) + Len(te) = Len(produced)
           /\ Origins(produced) =
                {<<k, PathOf(k, j)>> : k \in 1..Len(cam_extrinsics), j \in FrameRange}

\* Two cameras that share an image name, split into non-empty train and test.
C1_Witness ==
    /\ Returned /\ call = "Dynerf"
    /\ Len(cam_extrinsics) = 2 /\ duration = 2
    /\ cam_extrinsics[1].name = cam_extrinsics[2].name
    /\ Len(result.value.train_cameras) = 2
    /\ Len(result.value.test_cameras) = 2

\* C2: every record of every reader has 0 <= timestamp <= 1, and timestamp = 0
\* exactly at the first frame (j = startime) of its camera's sequence.
C2_TimestampRange ==
    (Returned /\ IsReaderCall) =>
        \A i \in 1..Len(result.value) :
            LET c == result.value[i]
            IN /\ c.timestamp.den > 0
               /\ 0 <= c.timestamp.num
               /\ c.timestamp.num <= c.timestamp.den
               /\ (c.timestamp.num = 0) <=> (FrameOf(c) = startime)

\* A reader called with startime > 0 that returned a later frame.
C2_Witness ==
    /\ Returned /\ IsReaderCall
    /\ startime > 0 /\ duration >= 2
    /\ \E i \in 1..Len(result.value) :
          /\ FrameOf(result.value[i]) > startime
          /\ result.value[i].timestamp.num > 0

\* C3 as stated, for the two readers it is drawn from (the testonly reader's
\* images are C6's): exactly the first frame of each camera has an image and a
\* pose; every later frame has image = None and pose = None.
C3_LazyImages ==
    (Returned /\ call \in {"readColmapCamerasDynerf", "readColmapCamerasTechnicolor"}) =>
        \A i \in 1..Len(result.value) :
            LET c == result.value[i]
            IN /\ (c.image # None) <=> (FrameOf(c) = startime)
               /\ (c.pose # None) <=> (FrameOf(c) = startime)

\* C3, amended: in all three readers pose and hpdirecitons are set exactly at
\* the first frame of each camera; readColmapCamerasDynerf gives an image to
\* exactly the first frame, readColmapCamerasTechnicolor opens one for every
\* frame.
C3_PoseLazyImagePerReader ==
    (Returned /\ IsReaderCall) =>
        \A i \in 1..Len(result.value) :
            LET c == result.value[i]
            IN /\ (c.pose # None) <=> (FrameOf(c) = startime)
               /\ (c.hpdirecitons # None) <=> (FrameOf(c) = startime)
               /\ call = "readColmapCamerasDynerf" =>
                     ((c.image # None) <=> (FrameOf(c) = startime))
               /\ call = "readColmapCamerasTechnicolor" => c.image # None

\* A later frame of readColmapCamerasTechnicolor: an image, but no pose.
C3_Witness ==
    /\ Returned /\ call = "readColmapCamerasTechnicolor"
    /\ \E i \in 1..Len(result.value) :
          /\ FrameOf(result.value[i]) > startime
          /\ result.value[i].image # None
          /\ result.value[i].pose = None

\* C4: the Technicolor assembler's test names all contain "cam10", no train
\* name does, train and test are disjoint and cover the reader's records, and
\* video_cameras is empty.
C4_TechnicolorSplit ==
    (Returned /\ call = "Technicolor") =>
        LET tr == result.value.train_cameras
            te == result.value.test_cameras
            produced == (IF testonly
                         THEN readColmapCamerasTechnicolorTestonly(
                                  cam_extrinsics, cam_intrinsics, root, 0, duration)
                         ELSE readColmapCamerasTechnicolor(
                                  cam_extrinsics, cam_intrinsics, root, 0, duration)).value
        IN /\ \A i \in 1..Len(te) : HasHeldOutId(te[i].image_name)
           /\ \A i \in 1..Len(tr) : ~HasHeldOutId(tr[i].image_name)
           /\ Origins(tr) \cap Origins(te) = {}
           /\ Elems(tr) \cup Elems(te) = Elems(produced)
           /\ Len(tr) + Len(te) = Len(produced)
           /\ result.value.video_cameras = <<>>

\* The held-out identifier inside a longer name, next to a regular camera.
C4_Witness ==
    /\ Returned /\ call = "Technicolor"
    /\ Len(result.value.train_cameras) > 0
    /\ \E i \in 1..Len(result.value.test_cameras) :
          Take(result.value.test_cameras[i].image_name, 5) # cam10

\* What the called COLMAP assembler does when the point cloud loads.
OnSuccessfulLoad ==
    IF call = "Dynerf"
    THEN readColmapSceneInfoDynerf(cam_extrinsics, cam_intrinsics, root, duration,
                                   testonly, "ok")
    ELSE readColmapSceneInfoTechnicolor(cam_extrinsics, cam_intrinsics, root,
                                        duration, testonly, "ok")

\* C5: in the two COLMAP assemblers a failing fetchPly never aborts: the
\* SceneInfo has point_cloud = None and otherwise equals the one of a
\* successful load; with testonly fetchPly is not called and point_cloud is
\* None.  In readHyperDataInfos a failing fetchPly is raised.
C5_PlyFailure ==
    /\ (Done /\ call \in {"Dynerf", "Technicolor"}) =>
          LET ok == OnSuccessfulLoad.res
          IN /\ result.kind = ok.kind
             /\ ok.kind = "raise" => result = ok
             /\ ok.kind = "return" =>
                   /\ result.value =
                        [ok.value EXCEPT !.point_cloud =
                            IF ~testonly /\ ply_file = "ok"
                            THEN "BasicPointCloud" ELSE None]
                   /\ fetched = IF testonly THEN 0 ELSE 1
    /\ (Done /\ call = "Nerfies" /\ ply_file # "ok") =>
          /\ result.kind = "raise"
          /\ fetched = 1 => result = fetchPly(ply_file)

\* A COLMAP assembler that tried the point cloud, failed, and still returned.
C5_Witness ==
    /\ Returned /\ call \in {"Dynerf", "Technicolor"}
    /\ ~testonly /\ ply_file # "ok" /\ fetched = 1
    /\ result.value.point_cloud = None
    /\ Len(result.value.train_cameras) > 0

\* C6: readColmapCamerasTechnicolorTestonly gives an image to the record of
\* the held-out camera "cam10" at j = startime and to no other record.
C6_TestonlyHeldOutImage ==
    (Returned /\ call = "readColmapCamerasTechnicolorTestonly") =>
        \A i \in 1..Len(result.value) :
            LET c == result.value[i]
            IN (c.image # None) <=>
                   (cam_extrinsics[c.key].name = cam10_png /\ FrameOf(c) = startime)

\* C7: a reader returns one record per (extrinsics entry, frame), camera-major
\* and by increasing frame, and no two records share (uid, timestamp).
C7_OnePerCameraFrame ==
    (Returned /\ IsReaderCall) =>
        LET cams == result.value
        IN /\ Len(cams) = Len(cam_extrinsics) * duration
           /\ \A i \in 1..Len(cams) :
                 /\ cams[i].key = ((i - 1) \div duration) + 1
                 /\ FrameOf(cams[i]) = startime + ((i - 1) % duration)
           /\ \A i \in 1..Len(cams) : \A k \in 1..Len(cams) :
                 (cams[i].uid = cams[k].uid /\ cams[i].timestamp = cams[k].timestamp)
                     => i = k

DistinctCameraIds ==
    \A k \in 1..Len(cam_extrinsics) : \A m \in 1..Len(cam_extrinsics) :
        cam_extrinsics[k].camera_id = cam_extrinsics[m].camera_id => k = m

\* C7, amended: one record per (extrinsics entry, frame), camera-major and
\* by increasing frame; no two records share (extrinsics entry, timestamp);
\* uid is the entry's intrinsics camera_id, so no two records share
\* (uid, timestamp) exactly when no two entries share a camera_id.
C7_OnePerEntryFrame ==
    (Returned /\ IsReaderCall) =>
        LET cams == result.value
        IN /\ Len(cams) = Len(cam_extrinsics) * duration
           /\ \A i \in 1..Len(cams) :
                 /\ cams[i].key = ((i - 1) \div duration) + 1
                 /\ FrameOf(cams[i]) = startime + ((i - 1) % duration)
                 /\ cams[i].uid = cam_extrinsics[cams[i].key].camera_id
           /\ \A i \in 1..Len(cams) : \A k \in 1..Len(cams) :
                 (cams[i].key = cams[k].key /\ cams[i].timestamp = cams[k].timestamp)
                     => i = k
           /\ DistinctCameraIds <=>
                 \A i \in 1..Len(cams) : \A k \in 1..Len(cams) :
                    (cams[i].uid = cams[k].uid /\ cams[i].timestamp = cams[k].timestamp)
                        => i = k

\* Two entries on one intrinsics camera: records that share (uid, timestamp).
C7_Witness ==
    /\ Returned /\ IsReaderCall
    /\ Len(cam_extrinsics) = 2 /\ duration >= 2
    /\ cam_extrinsics[1].camera_id = cam_extrinsics[2].camera_id
    /\ Len(result.value) = 2 * duration
    /\ result.value[1].uid = result.value[duration + 1].uid
    /\ result.value[1].timestamp = result.value[duration + 1].timestamp

\* The extrinsics entry whose image name sorts first (names pairwise distinct).
FirstByName ==
    CHOOSE k \in 1..Len(cam_extrinsics) :
        \A m \in 1..Len(cam_extrinsics) :
            StrLeq(LastComponent(cam_extrinsics[k].name),
                   LastComponent(cam_extrinsics[m].name))

DistinctImageNames ==
    \A k \in 1..Len(cam_extrinsics) : \A m \in 1..Len(cam_extrinsics) :
        LastComponent(cam_extrinsics[k].name) = LastComponent(cam_extrinsics[m].name)
            => k = m

AllReadable ==
    /\ missing = {}
    /\ \A k \in 1..Len(cam_extrinsics) :
          cam_intrinsics[cam_extrinsics[k].camera_id].model \in {"SIMPLE_PINHOLE", "PINHOLE"}

\* C8: Dynerf with N >= 2 cameras of distinct image names: test and video are
\* the same `duration` records of the camera whose name sorts first, train
\* holds the other (N-1)*duration records, and each list is sorted by name.
C8_DynerfFirstCameraHeldOut ==
    (Done /\ call = "Dynerf" /\ Len(cam_extrinsics) >= 2 /\ DistinctImageNames
          /\ AllReadable) =>
        /\ result.kind = "return"
        /\ LET tr == result.value.train_cameras
               te == result.value.test_cameras
           IN /\ result.value.video_cameras = te
              /\ Len(te) = duration
              /\ \A i \in 1..Len(te) : te[i].key = FirstByName
              /\ Len(tr) = (Len(cam_extrinsics) - 1) * duration
              /\ \A i \in 1..Len(tr) : tr[i].key # FirstByName
              /\ SortedNames(tr) /\ SortedNames(te)

\* The held-out camera is not the first entry of the extrinsics.
C8_Witness ==
    /\ Returned /\ call = "Dynerf"
    /\ Len(cam_extrinsics) = 2 /\ duration = 3 /\ DistinctImageNames
    /\ FirstByName = 2
    /\ Len(result.value.test_cameras) = 3
    /\ Len(result.value.train_cameras) = 3

\* A camera's world position c is the point its world-to-camera transform
\* sends to the origin: R^T c + T = 0.
IsWorldPosition(cam, c) ==
    \A i \in Vec3 : MatVec(Transpose(cam.R), c)[i] + cam.T[i] = 0

DistSqTimesN2(cams, i) ==
    LET n == Len(cams)
        total == SumVec([k \in 1..n |-> CamCenter(cams[k])])
        d == Sub(Scale(n, CamCenter(cams[i])), total)
    IN Dot(d, d)

\* C9: translate is minus the mean camera position, radius is 1.1 times the
\* largest distance from the mean (0 for one camera, positive for two
\* distinct positions), and the list normalised is the train split.
C9_Normalization ==
    (Returned /\ ~IsReaderCall) =>
        LET cams == norm_arg
            n == Len(cams)
            nrm == result.value.nerf_normalization
            total == SumVec([k \in 1..n |-> CamCenter(cams[k])])
        IN /\ n >= 1
           /\ \A i \in 1..n : IsWorldPosition(cams[i], CamCenter(cams[i]))
           /\ \A x \in Vec3 : nrm.translate.num[x] * n = (0 - total[x]) * nrm.translate.den
           /\ \A i \in 1..n :
                 121 * DistSqTimesN2(cams, i) * nrm.radius_sq.den
                     <= nrm.radius_sq.num * 100 * n * n
           /\ \E i \in 1..n :
                 121 * DistSqTimesN2(cams, i) * nrm.radius_sq.den
                     = nrm.radius_sq.num * 100 * n * n
           /\ nrm.radius_sq.den > 0 /\ nrm.translate.den > 0
           /\ n = 1 =>
                 /\ nrm.radius_sq.num = 0
                 /\ \A x \in Vec3 :
                       nrm.translate.num[x] = (0 - CamCenter(cams[1])[x]) * nrm.translate.den
           /\ (\E i \in 1..n : \E k \in 1..n : CamCenter(cams[i]) # CamCenter(cams[k]))
                 => nrm.radius_sq.num > 0
           /\ IF call = "Nerfies"
              THEN /\ cams = result.value.train_cameras.cams
                   /\ \A i \in 1..n : cams[i].split = "train"
              ELSE cams = result.value.train_cameras

\* Two train cameras of a hyper capture at different places.
C9_Witness ==
    /\ Returned /\ call = "Nerfies"
    /\ Len(norm_arg) = 2
    /\ CamCenter(norm_arg[1]) # CamCenter(norm_arg[2])
    /\ result.value.nerf_normalization.radius_sq.num > 0

\* The reader's first obstacle, scanning entries and frames in loop order: an
\* unsupported model at entry k is <<k, -1>>, a missing image <<k, j>>.
Obstacles ==
    LET bad == {m \in 1..Len(cam_extrinsics) :
                  cam_intrinsics[cam_extrinsics[m].camera_id].model
                      \notin {"SIMPLE_PINHOLE", "PINHOLE"}}
    IN {<<k, -1>> : k \in bad}
       \cup UNION {{<<k, j>> : j \in {f \in FrameRange : PathOf(k, f) \in missing}} :
                    k \in (1..Len(cam_extrinsics)) \ bad}

Before(p, q) == p[1] < q[1] \/ (p[1] = q[1] /\ p[2] <= q[2])

FirstObstacle == CHOOSE p \in Obstacles : \A q \in Obstacles : Before(p, q)

\* C10: a reader aborts at the first entry with an unsupported model, before
\* making any record for it, and at the first missing image; it returns only
\* when there is neither, never a partial list.
C10_FatalModelAndImage ==
    (Done /\ IsReaderCall) =>
        /\ (result.kind = "return") <=> (Obstacles = {})
        /\ result.kind = "raise" =>
              /\ result.exc = "AssertionError"
              /\ <<result.key, result.frame>> = FirstObstacle
              /\ result.created =
                    (result.key - 1) * duration
                    + (IF result.frame = -1 THEN 0 ELSE result.frame - startime)
              /\ (result.why = "camera model not handled") <=> (result.frame = -1)

\* The second entry's model is unsupported, after the first was read in full.
C10_Witness ==
    /\ Raised /\ IsReaderCall
    /\ result.why = "camera model not handled"
    /\ result.key = 2 /\ result.created = duration /\ duration >= 2

====
